---- MODULE Spec2Model ----
(***************************************************************************)
(* niftyterminal: the session / retry layer of core/session.py, and of     *)
(* api/indices.py the historical-data call (date-range batching, batch     *)
(* requests, merge of the price and valuation series) and the index list.  *)
(*                                                                         *)
(* The thread-blocking and the cooperative-suspension code paths are       *)
(* translated separately (fetch / afetch, NSESession / AsyncNSESession,    *)
(* _warmup_session / _awarmup_session) and run side by side against the    *)
(* same transport outcomes.                                                *)
(*                                                                         *)
(*   call  a one-shot fetch and afetch                                     *)
(*   hs    an NSESession and an AsyncNSESession                            *)
(*   hd    a call of get_index_historical_data                             *)
(*   api   a normalizer or a warmup applied to one input                   *)
(*   par   two tasks running afetch, or a handle each, in parallel         *)
(***************************************************************************)
EXTENDS Integers, Sequences, FiniteSets, TLC

VARIABLES call, hs, hd, api, par

vars == <<call, hs, hd, api, par>>

\* Largest value of the `retries` argument that is explored.
MaxRetries == 2

\* The two concurrency disciplines.
Disc == {"sync", "async"}

(***************************************************************************)
(* HTTP transport (httpx), seen through the calls the code makes on it.    *)
(* An outcome is what the origin / network does with one GET:              *)
(*   json    2xx, body is JSON and truthy (a non-empty mapping)            *)
(*   empty   2xx, body is JSON and falsy ({} or [])                        *)
(*   nonjson 2xx, body is not JSON (an HTML page)                          *)
(*   status  non-2xx status                                                *)
(*   neterr  connection error or timeout                                   *)
(***************************************************************************)
Outcomes == {"json", "empty", "nonjson", "status", "neterr"}

\* What the home page can answer: it is an HTML page, never JSON.
HomeOutcomes == {"nonjson", "status", "neterr"}

\* session.get(...): httpx raises a RequestError (an httpx.HTTPError) on a
\* connection error or a timeout.
get(o) == IF o = "neterr" THEN "HTTPError" ELSE "none"

\* response.raise_for_status(): HTTPStatusError (an httpx.HTTPError) on non-2xx.
raise_for_status(o) == IF o = "status" THEN "HTTPError" ELSE "none"

\* response.json(): json.JSONDecodeError (a ValueError) on a non-JSON body;
\* otherwise the parsed value, truthy ("json") or falsy ("emptyjson").
json_exc(o) == IF o = "nonjson" THEN "ValueError" ELSE "none"
json_value(o) == IF o = "json" THEN "json" ELSE "emptyjson"

\* The exception, if any, of  get -> raise_for_status.
RequestExc(o) == IF get(o) # "none" THEN get(o) ELSE raise_for_status(o)

\* The exception, if any, of  get -> raise_for_status -> json.
TargetExc(o) == IF RequestExc(o) # "none" THEN RequestExc(o) ELSE json_exc(o)

(***************************************************************************)
(* Session warmup. Returns [ret, events]: the boolean result and the       *)
(* requests and sleeps performed, in order.                                *)
(***************************************************************************)
\* The exception, if any, of a GET on a client that is open, closed (httpx
\* refuses with a RuntimeError) or absent (self.session is None).
ClientExc(s, o) ==
    IF s = "none" THEN "AttributeError"
    ELSE IF s = "closed" THEN "RuntimeError"
    ELSE RequestExc(o)

\* except httpx.HTTPError
WarmupCaught == {"HTTPError"}

_warmup_session(s, o, fast) ==
    LET exc == ClientExc(s, o)
    IN IF exc = "none"
       THEN [ret |-> TRUE, raised |-> "none",
             events |-> <<"get_home",
                          IF fast THEN "sleep_0.1_0.2" ELSE "sleep_0.3_0.5">>]
       ELSE IF exc \in WarmupCaught
       THEN [ret |-> FALSE, raised |-> "none", events |-> <<"get_home">>]
       ELSE [ret |-> FALSE, raised |-> exc, events |-> <<>>]

\* except httpx.HTTPError
AWarmupCaught == {"HTTPError"}

_awarmup_session(s, o, fast) ==
    LET exc == ClientExc(s, o)
    IN IF exc = "none"
       THEN [ret |-> TRUE, raised |-> "none",
             events |-> <<"get_home",
                          IF fast THEN "sleep_0.1_0.2" ELSE "sleep_0.3_0.5">>]
       ELSE IF exc \in AWarmupCaught
       THEN [ret |-> FALSE, raised |-> "none", events |-> <<"get_home">>]
       ELSE [ret |-> FALSE, raised |-> exc, events |-> <<>>]

(***************************************************************************)
(* One-shot fetch. A call is a record:                                     *)
(*   pc       loop | warmup | target | exit | done                         *)
(*   retries  the argument                                                 *)
(*   attempt  the loop variable                                            *)
(*   session  the client bound by the with statement (0: none)             *)
(*   created  number of clients constructed so far (ids are 1..created)    *)
(*   open     the clients constructed and not closed                       *)
(*   warm     result of the warmup of the current attempt                  *)
(*   after    how the with block is being left: next | continue | return   *)
(*            | raise                                                      *)
(*   result   none | json | emptyjson | empty ({} of line 272) | raised    *)
(*   trace    client creations, requests, sleeps and closes, in order      *)
(*   outs     the transport outcomes of the requests, in order             *)
(***************************************************************************)
NewCall(r) ==
    [pc |-> "loop", retries |-> r, attempt |-> 0, session |-> 0, created |-> 0,
     open |-> {}, warm |-> FALSE, after |-> "next", result |-> "none",
     trace |-> <<>>, outs |-> <<>>]

\* Variant: the except clause names httpx.HTTPError only.
FetchCaught_http_only == {"HTTPError"}

\* except (httpx.HTTPError, ValueError)
FetchCaught == {"HTTPError", "ValueError"}

\* Variant: the loop runs range(retries), one attempt short.
fetch_loop_short(c) ==
    IF c.attempt < c.retries
    THEN [c EXCEPT !.pc = "warmup", !.created = @ + 1, !.session = c.created + 1,
                   !.open = @ \cup {c.created + 1}, !.trace = Append(@, "create")]
    ELSE [c EXCEPT !.pc = "done", !.result = "empty"]

\* for attempt in range(retries + 1): with httpx.Client(...) as session:
\* and, once the range is exhausted, return {}
fetch_loop(c) ==
    IF c.attempt <= c.retries
    THEN [c EXCEPT !.pc = "warmup", !.created = @ + 1, !.session = c.created + 1,
                   !.open = @ \cup {c.created + 1}, !.trace = Append(@, "create")]
    ELSE [c EXCEPT !.pc = "done", !.result = "empty"]

\* Variant: a failed warmup never ends the attempt.
fetch_warmup_no_continue(c, o) ==
    LET w == _warmup_session("open", o, TRUE)
        c1 == [c EXCEPT !.trace = @ \o w.events, !.outs = Append(@, o), !.warm = w.ret]
    IN [c1 EXCEPT !.pc = "target"]

\* if not _warmup_session(session, timeout=timeout, fast=True):
\*     if attempt < retries: time.sleep(...); continue
fetch_warmup(c, o) ==
    LET w == _warmup_session("open", o, TRUE)
        c1 == [c EXCEPT !.trace = @ \o w.events, !.outs = Append(@, o), !.warm = w.ret]
    IN IF ~w.ret /\ c.attempt < c.retries
       THEN [c1 EXCEPT !.trace = Append(@, "sleep_0.3_0.5"), !.pc = "exit",
                       !.after = "continue"]
       ELSE [c1 EXCEPT !.pc = "target"]

\* response = session.get(url, ...); response.raise_for_status();
\* return response.json()
\* except (httpx.HTTPError, ValueError): if attempt < retries: time.sleep(...)
fetch_target(c, o) ==
    LET exc == TargetExc(o)
        c1 == [c EXCEPT !.trace = Append(@, "get_target"), !.outs = Append(@, o)]
    IN IF exc = "none"
       THEN [c1 EXCEPT !.result = json_value(o), !.pc = "exit", !.after = "return"]
       ELSE IF exc \in FetchCaught
       THEN [c1 EXCEPT !.trace = IF c.attempt < c.retries
                                 THEN Append(@, "sleep_0.3_0.5") ELSE @,
                       !.pc = "exit", !.after = "next"]
       ELSE [c1 EXCEPT !.result = "raised", !.pc = "exit", !.after = "raise"]

\* Variant: a successful attempt stores its result and the loop goes on.
fetch_exit_goes_on(c) ==
    LET c1 == [c EXCEPT !.open = @ \ {c.session}, !.trace = Append(@, "close")]
    IN IF c.after = "raise"
       THEN [c1 EXCEPT !.pc = "done"]
       ELSE [c1 EXCEPT !.pc = "loop", !.attempt = @ + 1]

\* Variant: the client is closed by hand at the end of the loop body, which
\* `continue` skips.
fetch_exit_leaks(c) ==
    LET c1 == IF c.after = "continue" THEN c
              ELSE [c EXCEPT !.open = @ \ {c.session}, !.trace = Append(@, "close")]
    IN IF c.after \in {"return", "raise"}
       THEN [c1 EXCEPT !.pc = "done"]
       ELSE [c1 EXCEPT !.pc = "loop", !.attempt = @ + 1]

\* leaving the with block: httpx.Client.__exit__ closes the client
fetch_exit(c) ==
    LET c1 == [c EXCEPT !.open = @ \ {c.session}, !.trace = Append(@, "close")]
    IN IF c.after \in {"return", "raise"}
       THEN [c1 EXCEPT !.pc = "done"]
       ELSE [c1 EXCEPT !.pc = "loop", !.attempt = @ + 1]

\* except (httpx.HTTPError, ValueError)
AFetchCaught == {"HTTPError", "ValueError"}

\* Variant: one client for the process, constructed by the first attempt that
\* runs and bound by every later one.
afetch_loop_shared_client(c) ==
    IF c.attempt <= c.retries
    THEN IF c.created = 0
         THEN [c EXCEPT !.pc = "warmup", !.created = 1, !.session = 1,
                        !.open = @ \cup {1}, !.trace = Append(@, "create")]
         ELSE [c EXCEPT !.pc = "warmup", !.session = 1, !.trace = Append(@, "create")]
    ELSE [c EXCEPT !.pc = "done", !.result = "empty"]

\* for attempt in range(retries + 1):
\*     async with httpx.AsyncClient(...) as session:
afetch_loop(c) ==
    IF c.attempt <= c.retries
    THEN [c EXCEPT !.pc = "warmup", !.created = @ + 1, !.session = c.created + 1,
                   !.open = @ \cup {c.created + 1}, !.trace = Append(@, "create")]
    ELSE [c EXCEPT !.pc = "done", !.result = "empty"]

\* Variant: the cooperative path goes to the next attempt without the backoff.
afetch_warmup_no_backoff(c, o) ==
    LET w == _awarmup_session("open", o, TRUE)
        c1 == [c EXCEPT !.trace = @ \o w.events, !.outs = Append(@, o), !.warm = w.ret]
    IN IF ~w.ret /\ c.attempt < c.retries
       THEN [c1 EXCEPT !.pc = "exit", !.after = "continue"]
       ELSE [c1 EXCEPT !.pc = "target"]

\* if not await _awarmup_session(session, timeout=timeout, fast=True):
\*     if attempt < retries: await asyncio.sleep(...); continue
afetch_warmup(c, o) ==
    LET w == _awarmup_session("open", o, TRUE)
        c1 == [c EXCEPT !.trace = @ \o w.events, !.outs = Append(@, o), !.warm = w.ret]
    IN IF ~w.ret /\ c.attempt < c.retries
       THEN [c1 EXCEPT !.trace = Append(@, "sleep_0.3_0.5"), !.pc = "exit",
                       !.after = "continue"]
       ELSE [c1 EXCEPT !.pc = "target"]

\* response = await session.get(url, ...); response.raise_for_status();
\* return response.json()
\* except (httpx.HTTPError, ValueError): if attempt < retries: await asyncio.sleep(...)
afetch_target(c, o) ==
    LET exc == TargetExc(o)
        c1 == [c EXCEPT !.trace = Append(@, "get_target"), !.outs = Append(@, o)]
    IN IF exc = "none"
       THEN [c1 EXCEPT !.result = json_value(o), !.pc = "exit", !.after = "return"]
       ELSE IF exc \in AFetchCaught
       THEN [c1 EXCEPT !.trace = IF c.attempt < c.retries
                                 THEN Append(@, "sleep_0.3_0.5") ELSE @,
                       !.pc = "exit", !.after = "next"]
       ELSE [c1 EXCEPT !.result = "raised", !.pc = "exit", !.after = "raise"]

\* leaving the async with block: httpx.AsyncClient.__aexit__ closes the client
afetch_exit(c) ==
    LET c1 == [c EXCEPT !.open = @ \ {c.session}, !.trace = Append(@, "close")]
    IN IF c.after \in {"return", "raise"}
       THEN [c1 EXCEPT !.pc = "done"]
       ELSE [c1 EXCEPT !.pc = "loop", !.attempt = @ + 1]

(***************************************************************************)
(* The one-shot fetch as a state machine: fetch and afetch are called with *)
(* the same retries and meet the same transport outcomes.                  *)
(***************************************************************************)
InitCall == \E r \in 0..MaxRetries : call = [d \in Disc |-> NewCall(r)]

\* fetch and afetch take each step together, on the same outcome.
Pair(s, a) == [d \in Disc |-> IF d = "sync" THEN s ELSE a]

AtPc(f, pc) == \A d \in Disc : f[d].pc = pc

FetchLoop ==
    /\ AtPc(call, "loop")
    /\ call' = Pair(fetch_loop(call["sync"]), afetch_loop(call["async"]))
    /\ UNCHANGED <<hs, hd, api, par>>

FetchWarmup ==
    /\ AtPc(call, "warmup")
    /\ \E o \in HomeOutcomes :
         call' = Pair(fetch_warmup(call["sync"], o), afetch_warmup(call["async"], o))
    /\ UNCHANGED <<hs, hd, api, par>>

FetchTarget ==
    /\ AtPc(call, "target")
    /\ \E o \in Outcomes :
         call' = Pair(fetch_target(call["sync"], o), afetch_target(call["async"], o))
    /\ UNCHANGED <<hs, hd, api, par>>

FetchExit ==
    /\ AtPc(call, "exit")
    /\ call' = Pair(fetch_exit(call["sync"]), afetch_exit(call["async"]))
    /\ UNCHANGED <<hs, hd, api, par>>

NextCall == FetchLoop \/ FetchWarmup \/ FetchTarget \/ FetchExit

(***************************************************************************)
(* Reusable session handle (NSESession / AsyncNSESession). A handle, with  *)
(* the clients it has constructed and the operation in progress:           *)
(*   session     self.session: the current client (0: None)                *)
(*   _warmed_up  self._warmed_up                                           *)
(*   created     number of clients constructed so far (ids 1..created)     *)
(*   open        the clients constructed and not closed                    *)
(*   scopes      the with scopes entered and not yet exited, innermost     *)
(*               last, each with the client its entry constructed          *)
(*   pc          idle | target | rewarm: position inside fetch             *)
(*   op          init | enter | exit | fetch: the last operation started   *)
(*   retries, attempt   argument and loop variable of the fetch            *)
(*   result      of the last fetch: none | json | empty | raised           *)
(*   error       the last exit was triggered by an error                   *)
(*   left        the client constructed by the entry of the scope that the *)
(*               last exit left (0: none)                                  *)
(*   propagated  the error that triggered the last exit went on to the     *)
(*               caller                                                    *)
(*   trace, outs events and transport outcomes of the last operation       *)
(*   nops        number of operations started                              *)
(*   tally       bookkeeping since the last scope entry: entry_ok, the     *)
(*               warmup of the entry succeeded; warmups, the home requests *)
(*               sent, the entry's included; fetches, the fetch calls that *)
(*               have returned or raised; firsttry, each of them returned  *)
(*               a non-empty result from its first target request; and     *)
(*               flag0, self._warmed_up when the last operation started    *)
(***************************************************************************)
\* Longest sequence of operations on one handle, deepest nesting of scopes,
\* largest `retries` argument of a fetch on a handle.
MaxOps == 4
MaxDepth == 2
MaxSessionRetries == 1

NewHandle ==
    [session |-> 0, _warmed_up |-> FALSE, created |-> 0, open |-> {},
     scopes |-> <<>>, pc |-> "idle", op |-> "init", retries |-> 0, attempt |-> 0,
     result |-> "none", error |-> FALSE, left |-> 0, propagated |-> FALSE,
     trace |-> <<>>, outs |-> <<>>, nops |-> 0,
     tally |-> [entry_ok |-> FALSE, warmups |-> 0, fetches |-> 0,
                firsttry |-> FALSE, flag0 |-> FALSE, last_warm |-> "none",
                session0 |-> 0]]

\* How a GET on self.session would find the client.
Status(h) ==
    IF h.session = 0 THEN "none"
    ELSE IF h.session \in h.open THEN "open" ELSE "closed"

\* An operation starts: its own trace starts empty.
Begin(h, op) ==
    [h EXCEPT !.op = op, !.trace = <<>>, !.outs = <<>>, !.result = "none",
              !.nops = @ + 1]

\* except (httpx.HTTPError, ValueError)
FetchWithSessionCaught == {"HTTPError", "ValueError"}

\* [value, raised, events]: the value returned ("empty" is the {} of the except
\* clause), or the exception that escapes.
_fetch_with_session(s, o) ==
    LET exc == IF ClientExc(s, o) # "none" THEN ClientExc(s, o) ELSE json_exc(o)
    IN IF exc = "none"
       THEN [value |-> json_value(o), raised |-> "none", events |-> <<"get_target">>]
       ELSE IF exc \in FetchWithSessionCaught
       THEN [value |-> "empty", raised |-> "none", events |-> <<"get_target">>]
       ELSE [value |-> "none", raised |-> exc, events |-> <<>>]

\* except (httpx.HTTPError, ValueError)
AFetchWithSessionCaught == {"HTTPError", "ValueError"}

_afetch_with_session(s, o) ==
    LET exc == IF ClientExc(s, o) # "none" THEN ClientExc(s, o) ELSE json_exc(o)
    IN IF exc = "none"
       THEN [value |-> json_value(o), raised |-> "none", events |-> <<"get_target">>]
       ELSE IF exc \in AFetchWithSessionCaught
       THEN [value |-> "empty", raised |-> "none", events |-> <<"get_target">>]
       ELSE [value |-> "none", raised |-> exc, events |-> <<>>]

\* Python truthiness of a fetched value: only a non-empty JSON value is true.
Truthy(v) == v = "json"

\* Variant: the result of the eager warmup is not recorded.
NSESession_enter_assumes_warm(h, o) ==
    LET id == h.created + 1
        w == _warmup_session("open", o, TRUE)
        h0 == Begin(h, "enter")
    IN [h0 EXCEPT !.session = id, !.created = id, !.open = @ \cup {id},
                  !.scopes = Append(@, id), !._warmed_up = TRUE,
                  !.trace = <<"create">> \o w.events, !.outs = <<o>>]

\* self.session = _create_session(is_async=False)
\* self._warmed_up = _warmup_session(self.session, timeout=self.timeout, fast=True)
\* return self
NSESession_enter(h, o) ==
    LET id == h.created + 1
        w == _warmup_session("open", o, TRUE)
        h0 == Begin(h, "enter")
    IN [h0 EXCEPT !.session = id, !.created = id, !.open = @ \cup {id},
                  !.scopes = Append(@, id), !._warmed_up = w.ret,
                  !.trace = <<"create">> \o w.events, !.outs = <<o>>]

\* if self.session: self.session.close()
\* return False
NSESession_exit(h, exc) ==
    LET ret == FALSE
        h0 == Begin(h, "exit")
    IN [h0 EXCEPT !.open = IF h.session # 0 THEN @ \ {h.session} ELSE @,
                  !.trace = IF h.session # 0 THEN <<"close">> ELSE <<>>,
                  !.scopes = SubSeq(@, 1, Len(@) - 1),
                  !.left = h.scopes[Len(h.scopes)],
                  !.error = exc, !.propagated = exc /\ ~ret]

\* Variant: the warmup runs whatever the flag.
NSESession_fetch_always_warms(h, r, o) ==
    LET h0 == [Begin(h, "fetch") EXCEPT !.retries = r, !.attempt = 0]
        w == _warmup_session(Status(h), o, TRUE)
    IN IF w.raised # "none"
       THEN [h0 EXCEPT !.result = "raised"]
       ELSE [h0 EXCEPT !._warmed_up = w.ret, !.trace = w.events, !.outs = <<o>>,
                       !.pc = "target"]

\* if not self._warmed_up:
\*     self._warmed_up = _warmup_session(self.session, timeout=self.timeout, fast=True)
\* for attempt in range(retries + 1):
NSESession_fetch(h, r, o) ==
    LET h0 == [Begin(h, "fetch") EXCEPT !.retries = r, !.attempt = 0]
        w == _warmup_session(Status(h), o, TRUE)
    IN IF h._warmed_up
       THEN [h0 EXCEPT !.pc = "target"]
       ELSE IF w.raised # "none"
       THEN [h0 EXCEPT !.result = "raised"]
       ELSE [h0 EXCEPT !._warmed_up = w.ret, !.trace = w.events, !.outs = <<o>>,
                       !.pc = "target"]

\* Variant: a target request that yields data marks the handle warmed up.
NSESession_fetch_target_marks_warm(h, o) ==
    LET f == _fetch_with_session(Status(h), o)
        h1 == [h EXCEPT !.trace = @ \o f.events,
                        !.outs = IF f.events # <<>> THEN Append(@, o) ELSE @]
    IN IF f.raised # "none"
       THEN [h1 EXCEPT !.result = "raised", !.pc = "idle"]
       ELSE IF Truthy(f.value)
       THEN [h1 EXCEPT !.result = f.value, !.pc = "idle", !._warmed_up = TRUE]
       ELSE IF h.attempt < h.retries
       THEN [h1 EXCEPT !.pc = "rewarm"]
       ELSE [h1 EXCEPT !.result = "empty", !.pc = "idle"]

\* Variant: the backoff and the warmup also follow the last attempt
\* (attempt <= retries).
NSESession_fetch_target_extra_retry(h, o) ==
    LET f == _fetch_with_session(Status(h), o)
        h1 == [h EXCEPT !.trace = @ \o f.events,
                        !.outs = IF f.events # <<>> THEN Append(@, o) ELSE @]
    IN IF f.raised # "none"
       THEN [h1 EXCEPT !.result = "raised", !.pc = "idle"]
       ELSE IF Truthy(f.value)
       THEN [h1 EXCEPT !.result = f.value, !.pc = "idle"]
       ELSE IF h.attempt <= h.retries
       THEN [h1 EXCEPT !.pc = "rewarm"]
       ELSE [h1 EXCEPT !.result = "empty", !.pc = "idle"]

\* result = _fetch_with_session(self.session, url, self.timeout, params)
\* if result: return result
\* ... and, when the range is exhausted: return {}
NSESession_fetch_target(h, o) ==
    LET f == _fetch_with_session(Status(h), o)
        h1 == [h EXCEPT !.trace = @ \o f.events,
                        !.outs = IF f.events # <<>> THEN Append(@, o) ELSE @]
    IN IF f.raised # "none"
       THEN [h1 EXCEPT !.result = "raised", !.pc = "idle"]
       ELSE IF Truthy(f.value)
       THEN [h1 EXCEPT !.result = f.value, !.pc = "idle"]
       ELSE IF h.attempt < h.retries
       THEN [h1 EXCEPT !.pc = "rewarm"]
       ELSE [h1 EXCEPT !.result = "empty", !.pc = "idle"]

\* if attempt < retries:
\*     time.sleep(random.uniform(0.2, 0.4))
\*     self._warmed_up = _warmup_session(self.session, timeout=self.timeout, fast=True)
NSESession_fetch_retry(h, o) ==
    LET w == _warmup_session(Status(h), o, TRUE)
        h1 == [h EXCEPT !.trace = Append(@, "sleep_0.2_0.4")]
    IN IF w.raised # "none"
       THEN [h1 EXCEPT !.result = "raised", !.pc = "idle"]
       ELSE [h1 EXCEPT !._warmed_up = w.ret, !.trace = @ \o w.events,
                       !.outs = Append(@, o), !.attempt = @ + 1, !.pc = "target"]

\* self.session = _create_session(is_async=True)
\* self._warmed_up = await _awarmup_session(self.session, timeout=self.timeout, fast=True)
\* return self
AsyncNSESession_aenter(h, o) ==
    LET id == h.created + 1
        w == _awarmup_session("open", o, TRUE)
        h0 == Begin(h, "enter")
    IN [h0 EXCEPT !.session = id, !.created = id, !.open = @ \cup {id},
                  !.scopes = Append(@, id), !._warmed_up = w.ret,
                  !.trace = <<"create">> \o w.events, !.outs = <<o>>]

\* if self.session: await self.session.aclose()
\* return False
AsyncNSESession_aexit(h, exc) ==
    LET ret == FALSE
        h0 == Begin(h, "exit")
    IN [h0 EXCEPT !.open = IF h.session # 0 THEN @ \ {h.session} ELSE @,
                  !.trace = IF h.session # 0 THEN <<"close">> ELSE <<>>,
                  !.scopes = SubSeq(@, 1, Len(@) - 1),
                  !.left = h.scopes[Len(h.scopes)],
                  !.error = exc, !.propagated = exc /\ ~ret]

\* if not self._warmed_up:
\*     self._warmed_up = await _awarmup_session(self.session, ..., fast=True)
\* for attempt in range(retries + 1):
AsyncNSESession_fetch(h, r, o) ==
    LET h0 == [Begin(h, "fetch") EXCEPT !.retries = r, !.attempt = 0]
        w == _awarmup_session(Status(h), o, TRUE)
    IN IF h._warmed_up
       THEN [h0 EXCEPT !.pc = "target"]
       ELSE IF w.raised # "none"
       THEN [h0 EXCEPT !.result = "raised"]
       ELSE [h0 EXCEPT !._warmed_up = w.ret, !.trace = w.events, !.outs = <<o>>,
                       !.pc = "target"]

\* result = await _afetch_with_session(self.session, url, self.timeout, params)
\* if result: return result
\* ... and, when the range is exhausted: return {}
AsyncNSESession_fetch_target(h, o) ==
    LET f == _afetch_with_session(Status(h), o)
        h1 == [h EXCEPT !.trace = @ \o f.events,
                        !.outs = IF f.events # <<>> THEN Append(@, o) ELSE @]
    IN IF f.raised # "none"
       THEN [h1 EXCEPT !.result = "raised", !.pc = "idle"]
       ELSE IF Truthy(f.value)
       THEN [h1 EXCEPT !.result = f.value, !.pc = "idle"]
       ELSE IF h.attempt < h.retries
       THEN [h1 EXCEPT !.pc = "rewarm"]
       ELSE [h1 EXCEPT !.result = "empty", !.pc = "idle"]

\* if attempt < retries:
\*     await asyncio.sleep(random.uniform(0.2, 0.4))
\*     self._warmed_up = await _awarmup_session(self.session, ..., fast=True)
AsyncNSESession_fetch_retry(h, o) ==
    LET w == _awarmup_session(Status(h), o, TRUE)
        h1 == [h EXCEPT !.trace = Append(@, "sleep_0.2_0.4")]
    IN IF w.raised # "none"
       THEN [h1 EXCEPT !.result = "raised", !.pc = "idle"]
       ELSE [h1 EXCEPT !._warmed_up = w.ret, !.trace = @ \o w.events,
                       !.outs = Append(@, o), !.attempt = @ + 1, !.pc = "target"]

\* The home requests of a trace.
Homes(trace) == Cardinality({k \in 1..Len(trace) : trace[k] = "get_home"})

\* The bookkeeping of one step that takes the handle from h to h1. A warmup
\* completes in the step when the step sends a home request; it is "ok" when
\* the transport answers that request with a 2xx status. session0 is the
\* client of the handle when the operation in progress started.
Tally(h, h1) ==
    LET started == h1.nops # h.nops
        sent == Homes(h1.trace) - (IF started THEN 0 ELSE Homes(h.trace))
        over == h1.op = "fetch" /\ h1.pc = "idle"
        t == h.tally
        warm == IF sent = 0 THEN t.last_warm
                ELSE IF h1.outs[Len(h1.outs)] \in {"json", "empty", "nonjson"}
                THEN "ok" ELSE "failed"
        s0 == IF started THEN h.session ELSE t.session0
    IN IF started /\ h1.op = "enter"
       THEN [h1 EXCEPT !.tally = [entry_ok |-> h1._warmed_up, warmups |-> sent,
                                  fetches |-> 0, firsttry |-> TRUE,
                                  flag0 |-> h._warmed_up, last_warm |-> warm,
                                  session0 |-> s0]]
       ELSE [h1 EXCEPT !.tally =
                [entry_ok |-> t.entry_ok,
                 warmups |-> t.warmups + sent,
                 fetches |-> t.fetches + (IF over THEN 1 ELSE 0),
                 firsttry |-> /\ t.firsttry
                              /\ h1.pc # "rewarm"
                              /\ over => (h1.result = "json" /\ h1.attempt = 0),
                 flag0 |-> IF started THEN h._warmed_up ELSE t.flag0,
                 last_warm |-> warm, session0 |-> s0]]

(***************************************************************************)
(* The handle as a state machine: an NSESession and an AsyncNSESession go  *)
(* through the same operations and meet the same transport outcomes.       *)
(* Operations on one handle are sequential: one starts when none is in     *)
(* progress. A scope can be entered at any time, also inside a scope of    *)
(* the same handle; an exit leaves the innermost scope.                    *)
(***************************************************************************)
InitHandle == hs = [d \in Disc |-> NewHandle]

CanStart == AtPc(hs, "idle") /\ \A d \in Disc : hs[d].nops < MaxOps

Enter ==
    /\ CanStart
    /\ \A d \in Disc : Len(hs[d].scopes) < MaxDepth
    /\ \E o \in HomeOutcomes :
         hs' = Pair(Tally(hs["sync"], NSESession_enter(hs["sync"], o)),
                    Tally(hs["async"], AsyncNSESession_aenter(hs["async"], o)))
    /\ UNCHANGED <<call, hd, api, par>>

Exit ==
    /\ CanStart
    /\ \A d \in Disc : hs[d].scopes # <<>>
    /\ \E exc \in BOOLEAN :
         hs' = Pair(Tally(hs["sync"], NSESession_exit(hs["sync"], exc)),
                    Tally(hs["async"], AsyncNSESession_aexit(hs["async"], exc)))
    /\ UNCHANGED <<call, hd, api, par>>

SessionFetch ==
    /\ CanStart
    /\ \E r \in 0..MaxSessionRetries, o \in HomeOutcomes :
         hs' = Pair(Tally(hs["sync"], NSESession_fetch(hs["sync"], r, o)),
                    Tally(hs["async"], AsyncNSESession_fetch(hs["async"], r, o)))
    /\ UNCHANGED <<call, hd, api, par>>

SessionTarget ==
    /\ AtPc(hs, "target")
    /\ \E o \in Outcomes :
         hs' = Pair(Tally(hs["sync"], NSESession_fetch_target(hs["sync"], o)),
                    Tally(hs["async"], AsyncNSESession_fetch_target(hs["async"], o)))
    /\ UNCHANGED <<call, hd, api, par>>

SessionRetry ==
    /\ AtPc(hs, "rewarm")
    /\ \E o \in HomeOutcomes :
         hs' = Pair(Tally(hs["sync"], NSESession_fetch_retry(hs["sync"], o)),
                    Tally(hs["async"], AsyncNSESession_fetch_retry(hs["async"], o)))
    /\ UNCHANGED <<call, hd, api, par>>

NextHandle == Enter \/ Exit \/ SessionFetch \/ SessionTarget \/ SessionRetry

(***************************************************************************)
(* get_index_historical_data. Dates are day numbers; a date that was given *)
(* is the midnight of its day, and datetime.now() is a day with a time of  *)
(* day (end_now: the time is past midnight).                               *)
(*   pc             parse | validate | batching | price | yield | merge |  *)
(*                  done                                                   *)
(*   start_date, end_date   the arguments, <<form, day>>: "ymd" a valid    *)
(*                  YYYY-MM-DD string, "bad" another non-empty string,     *)
(*                  "empty" the string "", "none" None                     *)
(*   now            datetime.now(): <<day, past midnight>>                 *)
(*   start_dt, end_dt, end_now   the parsed arguments                      *)
(*   current_start  the loop variable                                      *)
(*   date_batches   the batches emitted so far, <<start, end>> each        *)
(*   i              index of the batch the request loops are at            *)
(*   requests       the fetches issued: <<kind, from, to>> each            *)
(*   price_data, yield_data   the dicts, in insertion order: a sequence of *)
(*                  [key, val] with no key twice                           *)
(*   failed         the fetches that returned {}: <<kind, batch index>>    *)
(*   result         none | empty ({}) | series ({"indexData": all_data})   *)
(*   all_data       the merged list                                        *)
(***************************************************************************)
MAX_DAYS_PER_REQUEST == 364

\* Dates explored: start_dt in 1..MaxStart, end_dt in 0..MaxDay, and
\* datetime.now() in the days 0..MaxToday.
MaxStart == 1
MaxDay == 740
MaxToday == 3

Min(a, b) == IF a < b THEN a ELSE b

\* datetime.strptime(s, "%Y-%m-%d") raises ValueError
strptime_raises(s) == s[1] # "ymd"

\* if end_date:
end_date_given(s) == s[1] \in {"ymd", "bad"}

\* The upstream date strings: DD-MMM-YYYY, YYYY-MM-DD, or "" (the key is
\* absent from the item).
DMY(d) == <<"DD-MMM-YYYY", d>>
ISO(d) == <<"YYYY-MM-DD", d>>
Undated == <<"", 0>>

\* The normalized date YYYY-MM-DD of a day is the day number; "" is 0.
_normalize_date(raw) == IF raw[1] \in {"DD-MMM-YYYY", "YYYY-MM-DD"} THEN raw[2] ELSE 0

\* d[k] = v on a dict in insertion order
Put(d, k, v) ==
    IF \E j \in 1..Len(d) : d[j].key = k
    THEN [j \in 1..Len(d) |-> IF d[j].key = k THEN [key |-> k, val |-> v] ELSE d[j]]
    ELSE Append(d, [key |-> k, val |-> v])

Keys(d) == {d[j].key : j \in 1..Len(d)}

\* d.get(k, default)
Get(d, k, default) ==
    IF k \in Keys(d) THEN (CHOOSE e \in {d[j] : j \in 1..Len(d)} : e.key = k).val ELSE default

NewHistCall(sd, ed, now) ==
    [pc |-> "parse", start_date |-> sd, end_date |-> ed, now |-> now,
     start_dt |-> 0, end_dt |-> 0, end_now |-> FALSE, current_start |-> 0,
     date_batches |-> <<>>, i |-> 1, requests |-> <<>>,
     price_data |-> <<>>, yield_data |-> <<>>, failed |-> {},
     result |-> "none", all_data |-> <<>>]

\* A call with both dates given and valid.
NewHist(s, e) == NewHistCall(<<"ymd", s>>, <<"ymd", e>>, <<0, FALSE>>)

\* hist_parse with an end date that fails to parse treated like an absent one.
hist_parse_bad_end_is_today(h) ==
    IF strptime_raises(h.start_date)
    THEN [h EXCEPT !.pc = "done", !.result = "empty"]
    ELSE IF end_date_given(h.end_date) /\ ~strptime_raises(h.end_date)
         THEN [h EXCEPT !.pc = "validate", !.start_dt = h.start_date[2],
                        !.end_dt = h.end_date[2]]
         ELSE [h EXCEPT !.pc = "validate", !.start_dt = h.start_date[2],
                        !.end_dt = h.now[1], !.end_now = h.now[2]]

\* try: start_dt = datetime.strptime(start_date, "%Y-%m-%d")
\* except ValueError: return {}
\* if end_date: (the same) else: end_dt = datetime.now()
hist_parse(h) ==
    IF strptime_raises(h.start_date)
    THEN [h EXCEPT !.pc = "done", !.result = "empty"]
    ELSE IF end_date_given(h.end_date)
         THEN IF strptime_raises(h.end_date)
              THEN [h EXCEPT !.pc = "done", !.result = "empty"]
              ELSE [h EXCEPT !.pc = "validate", !.start_dt = h.start_date[2],
                             !.end_dt = h.end_date[2]]
         ELSE [h EXCEPT !.pc = "validate", !.start_dt = h.start_date[2],
                        !.end_dt = h.now[1], !.end_now = h.now[2]]

\* if start_dt > end_dt: return {}
\* date_batches = []; current_start = start_dt
hist_validate(h) ==
    IF h.start_dt > h.end_dt
    THEN [h EXCEPT !.pc = "done", !.result = "empty"]
    ELSE [h EXCEPT !.pc = "batching", !.current_start = h.start_dt]

\* while current_start < end_dt:
\*     current_end = min(current_start + timedelta(days=MAX_DAYS_PER_REQUEST), end_dt)
\*     date_batches.append((current_start, current_end))
\*     current_start = current_end + timedelta(days=1)
hist_batch(h) ==
    IF h.current_start < h.end_dt \/ (h.current_start = h.end_dt /\ h.end_now)
    THEN LET current_end == Min(h.current_start + MAX_DAYS_PER_REQUEST, h.end_dt)
         IN [h EXCEPT !.date_batches = Append(@, <<h.current_start, current_end>>),
                      !.current_start = current_end + 1]
    ELSE [h EXCEPT !.pc = "price", !.i = 1]

\* What fetch(url) returned: {} (ret "empty"), or the decoded document, with
\* or without a "data" list.
Exhausted == [ret |-> "empty", has_data |-> FALSE, data |-> <<>>]
NoData == [ret |-> "json", has_data |-> FALSE, data |-> <<>>]
Doc(items) == [ret |-> "json", has_data |-> TRUE, data |-> items]

\* if batch_data and "data" in batch_data:
HasData(batch_data) == batch_data.ret = "json" /\ batch_data.has_data

\* for item in batch_data["data"]: ... if normalized_date:
\*     price_data[normalized_date] = {"indexName": ..., "open": ..., ...}
RECURSIVE price_items(_, _)
price_items(d, items) ==
    IF items = <<>> THEN d
    ELSE LET item == Head(items)
             normalized_date == _normalize_date(item.EOD_TIMESTAMP)
             d1 == IF normalized_date # 0
                   THEN Put(d, normalized_date,
                            [indexName |-> item.EOD_INDEX_NAME,
                             open |-> item.v, high |-> item.v, low |-> item.v,
                             close |-> item.v, volume |-> item.v])
                   ELSE d
         IN price_items(d1, Tail(items))

\* for item in batch_data["data"]: ... if normalized_date:
\*     yield_data[normalized_date] = {"PE": ..., "PB": ..., "divYield": ...}
RECURSIVE yield_items(_, _)
yield_items(d, items) ==
    IF items = <<>> THEN d
    ELSE LET item == Head(items)
             normalized_date == _normalize_date(item.IY_DT)
             d1 == IF normalized_date # 0
                   THEN Put(d, normalized_date,
                            [PE |-> item.v, PB |-> item.v, divYield |-> item.v])
                   ELSE d
         IN yield_items(d1, Tail(items))

\* for batch_start, batch_end in date_batches: ... batch_data = fetch(url)
hist_price(h, batch_data) ==
    IF h.i <= Len(h.date_batches)
    THEN [h EXCEPT !.requests = Append(@, <<"price", h.date_batches[h.i][1],
                                            h.date_batches[h.i][2]>>),
                   !.price_data = IF HasData(batch_data)
                                  THEN price_items(@, batch_data.data) ELSE @,
                   !.failed = IF batch_data.ret = "empty"
                              THEN @ \cup {<<"price", h.i>>} ELSE @,
                   !.i = @ + 1]
    ELSE [h EXCEPT !.pc = "yield", !.i = 1]

\* for batch_start, batch_end in date_batches: ... batch_data = fetch(url)
hist_yield(h, batch_data) ==
    IF h.i <= Len(h.date_batches)
    THEN [h EXCEPT !.requests = Append(@, <<"yield", h.date_batches[h.i][1],
                                            h.date_batches[h.i][2]>>),
                   !.yield_data = IF HasData(batch_data)
                                  THEN yield_items(@, batch_data.data) ELSE @,
                   !.failed = IF batch_data.ret = "empty"
                              THEN @ \cup {<<"yield", h.i>>} ELSE @,
                   !.i = @ + 1]
    ELSE [h EXCEPT !.pc = "merge"]

\* sorted(keys, reverse=True)
RECURSIVE sorted_reverse(_)
sorted_reverse(keys) ==
    IF keys = {} THEN <<>>
    ELSE LET m == CHOOSE k \in keys : \A j \in keys : j <= k
         IN <<m>> \o sorted_reverse(keys \ {m})

\* yields.get("PE") on yields = yield_data.get(date_key, {})
NoYields == [PE |-> "None", PB |-> "None", divYield |-> "None"]

\* all_data.append({...}) for one date_key
point(h, date_key) ==
    LET price == Get(h.price_data, date_key, "KeyError")
        yields == Get(h.yield_data, date_key, NoYields)
    IN [indexName |-> price.indexName, date |-> date_key,
        open |-> price.open, high |-> price.high, low |-> price.low,
        close |-> price.close, volume |-> price.volume,
        PE |-> yields.PE, PB |-> yields.PB, divYield |-> yields.divYield]

\* hist_merge going through price_data in the order of the dict, unsorted.
hist_merge_unsorted(h) ==
    IF h.price_data = <<>>
    THEN [h EXCEPT !.pc = "done", !.result = "empty"]
    ELSE [h EXCEPT !.pc = "done", !.result = "series",
                   !.all_data = [k \in 1..Len(h.price_data) |->
                                     point(h, h.price_data[k].key)]]

\* hist_merge keeping only the dates that have a valuation.
hist_merge_inner_join(h) ==
    IF h.price_data = <<>>
    THEN [h EXCEPT !.pc = "done", !.result = "empty"]
    ELSE LET order == sorted_reverse(Keys(h.price_data) \cap Keys(h.yield_data))
         IN [h EXCEPT !.pc = "done", !.result = "series",
                      !.all_data = [k \in 1..Len(order) |-> point(h, order[k])]]

\* if not price_data: return {}
\* for date_key in sorted(price_data.keys(), reverse=True): all_data.append({...})
\* return {"indexData": all_data}
hist_merge(h) ==
    IF h.price_data = <<>>
    THEN [h EXCEPT !.pc = "done", !.result = "empty"]
    ELSE LET order == sorted_reverse(Keys(h.price_data))
         IN [h EXCEPT !.pc = "done", !.result = "series",
                      !.all_data = [k \in 1..Len(order) |-> point(h, order[k])]]

\* The keys of the mapping a call returns.
ReturnedKeys(h) == IF h.result = "series" THEN {"indexData"} ELSE {}

\* The documents a price request of batch b may be answered with: its first
\* day; or its last day, an undated item, its first day again and the first
\* day of the range, in this order. A valuation request is answered with the
\* last day, an undated item and the first day.
PriceItem(raw, v) == [EOD_TIMESTAMP |-> raw, EOD_INDEX_NAME |-> "NIFTY 50", v |-> v]

PriceAnswers(h) ==
    LET b == h.date_batches[h.i]
    IN {Exhausted, NoData,
        Doc(<<PriceItem(DMY(b[1]), <<h.i, 1>>)>>),
        Doc(<<PriceItem(DMY(b[2]), <<h.i, 1>>), PriceItem(Undated, <<h.i, 2>>),
              PriceItem(ISO(b[1]), <<h.i, 3>>), PriceItem(DMY(h.start_dt), <<h.i, 4>>)>>)}

YieldItem(raw, v) == [IY_DT |-> raw, v |-> v]

YieldAnswers(h) ==
    LET b == h.date_batches[h.i]
    IN {Exhausted,
        Doc(<<YieldItem(ISO(b[2]), <<h.i, 1>>), YieldItem(Undated, <<h.i, 2>>),
              YieldItem(DMY(b[1]), <<h.i, 3>>)>>)}

StartArgs == {<<"ymd", s>> : s \in 1..MaxStart} \cup {<<"bad", 0>>}
AbsentOrBad == {<<"bad", 0>>, <<"empty", 0>>, <<"none", 0>>}
Clocks == (0..MaxToday) \X BOOLEAN

InitHist ==
    \/ \E s \in 1..MaxStart, e \in 0..MaxDay : hd = NewHist(s, e)
    \/ \E sd \in StartArgs, ed \in AbsentOrBad, now \in Clocks :
         hd = NewHistCall(sd, ed, now)
    \/ \E e \in 0..MaxToday : hd = NewHistCall(<<"bad", 0>>, <<"ymd", e>>, <<0, FALSE>>)

HistParse ==
    /\ hd.pc = "parse"
    /\ hd' = hist_parse(hd)
    /\ UNCHANGED <<call, hs, api, par>>

HistValidate ==
    /\ hd.pc = "validate"
    /\ hd' = hist_validate(hd)
    /\ UNCHANGED <<call, hs, api, par>>

HistBatch ==
    /\ hd.pc = "batching"
    /\ hd' = hist_batch(hd)
    /\ UNCHANGED <<call, hs, api, par>>

HistPrice ==
    /\ hd.pc = "price"
    /\ \E batch_data \in IF hd.i <= Len(hd.date_batches) THEN PriceAnswers(hd) ELSE {Exhausted} :
         hd' = hist_price(hd, batch_data)
    /\ UNCHANGED <<call, hs, api, par>>

HistYield ==
    /\ hd.pc = "yield"
    /\ \E batch_data \in IF hd.i <= Len(hd.date_batches) THEN YieldAnswers(hd) ELSE {Exhausted} :
         hd' = hist_yield(hd, batch_data)
    /\ UNCHANGED <<call, hs, api, par>>

HistMerge ==
    /\ hd.pc = "merge"
    /\ hd' = hist_merge(hd)
    /\ UNCHANGED <<call, hs, api, par>>

NextHist == HistParse \/ HistValidate \/ HistBatch \/ HistPrice \/ HistYield \/ HistMerge

(***************************************************************************)
(* The normalizers, applied to an input each:                              *)
(*   fn    the function called                                             *)
(*   pc    call | done                                                     *)
(*   arg   its input                                                       *)
(*   ret   what it returned ("none" before it has)                         *)
(***************************************************************************)
SECTORAL_OVERRIDE == {"NIFTY BANK", "NIFTY FIN SERVICE"}

SKIP_CATEGORIES == {"Others"}

\* data.items(): the categories of the index master, in the order of the
\* document; a category is present or not, and has a list of index names.
Categories == <<"Broad Market Indices", "Sectoral Indices",
                "Indices Eligible in Derivatives", "Others">>

\* set(data.get("Indices Eligible in Derivatives", []))
derivatives_list(data) ==
    LET l == data["Indices Eligible in Derivatives"]
    IN IF l.present THEN {l.indices[k] : k \in 1..Len(l.indices)} ELSE {}

\* for index_name in indices: index_list.append({...})
category_entries(data, category) ==
    LET indices == data[category].indices
    IN IF ~data[category].present \/ category \in SKIP_CATEGORIES THEN <<>>
       ELSE IF category = "Indices Eligible in Derivatives"
       THEN [k \in 1..Len(indices) |->
                [indexName |-> indices[k], subType |-> "Broad Market Indices",
                 derivativesEligiblity |-> TRUE]]
       ELSE [k \in 1..Len(indices) |->
                [indexName |-> indices[k], subType |-> category,
                 derivativesEligiblity |-> indices[k] \in derivatives_list(data)]]

\* for category, indices in data.items(): ...
RECURSIVE index_entries(_, _)
index_entries(data, k) ==
    IF k > Len(Categories) THEN <<>>
    ELSE category_entries(data, Categories[k]) \o index_entries(data, k + 1)

\* data = fetch(INDEX_MASTER_URL); if not data: return {}
\* ... return {"indexList": index_list}
get_index_list(data) ==
    IF \A c \in DOMAIN data : ~data[c].present
    THEN [result |-> "empty", indexList |-> <<>>]
    ELSE [result |-> "list", indexList |-> index_entries(data, 1)]

\* The lists of index names a category is given with.
IndexLists == {<<>>, <<"NIFTY 50">>, <<"NIFTY BANK">>, <<"NIFTY 50", "NIFTY BANK">>,
               <<"NIFTY FIN SERVICE">>}

\* What fetch(INDEX_MASTER_URL) returns: a document, or {} (nothing present).
MasterData ==
    [{Categories[k] : k \in 1..Len(Categories)} ->
        {[present |-> TRUE, indices |-> l] : l \in IndexLists}
            \cup {[present |-> FALSE, indices |-> <<>>]}]

InitApi ==
    \E data \in MasterData :
        api = [fn |-> "get_index_list", pc |-> "call", arg |-> data, ret |-> "none"]

GetIndexList ==
    /\ api.pc = "call" /\ api.fn = "get_index_list"
    /\ api' = [api EXCEPT !.pc = "done", !.ret = get_index_list(api.arg)]
    /\ UNCHANGED <<call, hs, hd, par>>

\* One warmup on an open client, in both translations.
InitWarmup ==
    \E fast \in BOOLEAN, o \in HomeOutcomes :
        api = [fn |-> "_warmup_session", pc |-> "call",
               arg |-> [fast |-> fast, outcome |-> o], ret |-> "none"]

Warmup ==
    /\ api.pc = "call" /\ api.fn = "_warmup_session"
    /\ api' = [api EXCEPT !.pc = "done",
                          !.ret = [sync |-> _warmup_session("open", api.arg.outcome,
                                                            api.arg.fast),
                                   async |-> _awarmup_session("open", api.arg.outcome,
                                                              api.arg.fast)]]
    /\ UNCHANGED <<call, hs, hd, par>>

(***************************************************************************)
(* Date-string reparsing (the date helpers of the normalizers). A string   *)
(* is a sequence of pieces, each a run of characters of one kind:          *)
(*   sp    a space                  tab   a blank other than a space       *)
(*   date  DD-Mon-YYYY (of day d)   hms   HH:MM:SS      hm   HH:MM         *)
(*   text  any other run of non-blank characters                           *)
(* Two adjacent non-blank pieces would read as one run, so non-blank       *)
(* pieces are separated by blanks. A helper ends in [value, raised]: the   *)
(* string returned, or the exception that leaves it.                       *)
(***************************************************************************)
MaxLen == 3
MaxDate == 2

Piece(k, d) == [k |-> k, d |-> d]
Blank == {"sp", "tab"}
Pieces ==
    {Piece(k, 0) : k \in {"sp", "tab", "hms", "hm", "text"}}
        \cup {Piece("date", d) : d \in 1..MaxDate}

Strings ==
    {s \in UNION {[1..n -> Pieces] : n \in 0..MaxLen} :
        \A i \in 1..(Len(s) - 1) : s[i].k \in Blank \/ s[i + 1].k \in Blank}

Returns(v) == [value |-> v, raised |-> "none"]
Raises(e) == [value |-> <<"no value", 0>>, raised |-> e]

\* " " in date_str
has_space(s) == \E i \in 1..Len(s) : s[i].k = "sp"

\* date_str.split(): the runs of non-blank characters, in order.
split(s) ==
    LET RECURSIVE words(_)
        words(i) == IF i > Len(s) THEN <<>>
                    ELSE IF s[i].k \in Blank THEN words(i + 1)
                    ELSE <<(<<s[i]>>)>> \o words(i + 1)
    IN words(1)

\* seq[0]
first(seq) == IF seq = <<>> THEN Raises("IndexError") ELSE Returns(seq[1])

\* date_part.strip()
strip(s) ==
    LET RECURSIVE lstrip(_)
        lstrip(t) == IF t # <<>> /\ t[1].k \in Blank THEN lstrip(Tail(t)) ELSE t
        RECURSIVE rstrip(_)
        rstrip(t) == IF t # <<>> /\ t[Len(t)].k \in Blank
                     THEN rstrip(SubSeq(t, 1, Len(t) - 1)) ELSE t
    IN rstrip(lstrip(s))

\* datetime.strptime(s, fmt): the whole string must match the format; a
\* blank of the format matches one or more blanks of the string. The value
\* is the day of the datetime.
strptime(s, fmt) ==
    LET clock == IF fmt = "%d-%b-%Y %H:%M:%S" THEN "hms" ELSE "hm"
        matches ==
            IF fmt = "%d-%b-%Y"
            THEN Len(s) = 1 /\ s[1].k = "date"
            ELSE /\ Len(s) >= 3
                 /\ s[1].k = "date"
                 /\ s[Len(s)].k = clock
                 /\ \A i \in 2..(Len(s) - 1) : s[i].k \in Blank
    IN IF matches THEN Returns(s[1].d) ELSE Raises("ValueError")

\* dt.strftime("%Y-%m-%d")
strftime(day) == ISO(day)

_parse_date_to_ymd(date_str) ==
    IF date_str = <<>> THEN Returns(Undated)
    ELSE LET dt == strptime(date_str, "%d-%b-%Y")
         IN IF dt.raised = "none" THEN Returns(strftime(dt.value))
            ELSE IF dt.raised \in {"ValueError"} THEN Returns(Undated)
            ELSE Raises(dt.raised)

_parse_timestamp_to_date(timestamp_str) ==
    LET RECURSIVE try(_)
        try(fmts) ==
            IF fmts = <<>> THEN Returns(Undated)
            ELSE LET dt == strptime(timestamp_str, Head(fmts))
                 IN IF dt.raised = "none" THEN Returns(strftime(dt.value))
                    ELSE IF dt.raised \in {"ValueError"} THEN try(Tail(fmts))
                    ELSE Raises(dt.raised)
    IN IF timestamp_str = <<>> THEN Returns(Undated)
       ELSE try(<<"%d-%b-%Y %H:%M:%S", "%d-%b-%Y %H:%M">>)

_parse_date(date_str) ==
    IF date_str = <<>> THEN Returns(Undated)
    ELSE LET word == first(split(date_str))
             dt == IF word.raised # "none" THEN word
                   ELSE strptime(word.value, "%d-%b-%Y")
         IN IF dt.raised = "none" THEN Returns(strftime(dt.value))
            ELSE IF dt.raised \in {"ValueError", "IndexError"} THEN Returns(Undated)
            ELSE Raises(dt.raised)

_parse_listing_date(date_str) ==
    IF date_str = <<>> THEN Returns(Undated)
    ELSE LET date_part == IF has_space(date_str) THEN first(split(date_str))
                          ELSE Returns(date_str)
         IN IF date_part.raised # "none" THEN Raises(date_part.raised)
            ELSE LET dt == strptime(strip(date_part.value), "%d-%b-%Y")
                 IN IF dt.raised = "none" THEN Returns(strftime(dt.value))
                    ELSE IF dt.raised \in {"ValueError"} THEN Returns(Undated)
                    ELSE Raises(dt.raised)

DateHelpers ==
    {"_parse_date_to_ymd", "_parse_timestamp_to_date", "_parse_date",
     "_parse_listing_date"}

InitDate ==
    \E fn \in DateHelpers, s \in Strings :
        api = [fn |-> fn, pc |-> "call", arg |-> s, ret |-> "none"]

ParseDate ==
    /\ api.pc = "call" /\ api.fn \in DateHelpers
    /\ api' = [api EXCEPT
                 !.pc = "done",
                 !.ret = CASE api.fn = "_parse_date_to_ymd" ->
                                _parse_date_to_ymd(api.arg)
                           [] api.fn = "_parse_timestamp_to_date" ->
                                _parse_timestamp_to_date(api.arg)
                           [] api.fn = "_parse_date" -> _parse_date(api.arg)
                           [] api.fn = "_parse_listing_date" ->
                                _parse_listing_date(api.arg)]
    /\ UNCHANGED <<call, hs, hd, par>>

NextApi == GetIndexList \/ Warmup \/ ParseDate

(***************************************************************************)
(* Tasks run in parallel in one process (asyncio.gather of afetch calls,   *)
(* or of batches each on an AsyncNSESession of its own). A step of a task  *)
(* is one step of its call; the clients of all tasks are objects of the    *)
(* process.                                                                *)
(*   kind     calls | handles: what the tasks run                          *)
(*   rec      the call, or the handle, of each task                        *)
(*   script   the transport outcomes each task meets, in order (repeated   *)
(*            when exhausted)                                              *)
(*   pos      the number of outcomes each task has met                     *)
(*   opi      the number of operations of Program each task has started    *)
(*   created, open   the clients constructed in the process, and those not *)
(*            closed                                                       *)
(*   owner    <<client, task>>: the task constructed the client            *)
(*   users    <<client, task>>: the task has bound, used or closed the     *)
(*            client                                                       *)
(*   log      the events of each task, in order                            *)
(***************************************************************************)
Tasks == {"A", "B"}

\* `retries` of every call of a task.
ParRetries == 1

\* What a task does with its handle: async with AsyncNSESession() as s, two
\* fetch calls.
Program == <<"enter", "fetch", "fetch", "exit">>

Scripts == {<<"nonjson", "json">>,
            <<"status", "neterr", "json", "nonjson", "empty">>,
            <<"nonjson", "nonjson", "status">>}

\* The call or handle of a task as its code finds it: the clients are those of
\* the process.
View(r, p) == [r EXCEPT !.created = p.created, !.open = p.open]

Outcome(script, pos) == script[(pos % Len(script)) + 1]

\* The events and the outcomes that a step from r to r1 added.
Added(r, r1, q, q1) ==
    IF "nops" \in DOMAIN r /\ r1.nops # r.nops THEN q1
    ELSE SubSeq(q1, Len(q) + 1, Len(q1))

\* Task x takes a step that leaves its call or handle as r1, on client s.
Advance(p, x, r1, s) ==
    LET r == View(p.rec[x], p)
    IN [p EXCEPT !.rec[x] = r1,
                 !.created = r1.created,
                 !.open = r1.open,
                 !.pos[x] = @ + Len(Added(r, r1, r.outs, r1.outs)),
                 !.opi[x] = IF "nops" \in DOMAIN r THEN @ + (r1.nops - r.nops) ELSE @,
                 !.owner = IF r1.created > r.created
                           THEN @ \cup {<<r1.created, x>>} ELSE @,
                 !.users = IF s # 0 THEN @ \cup {<<s, x>>} ELSE @,
                 !.log[x] = @ \o Added(r, r1, r.trace, r1.trace)]

\* One step of afetch.
StepCall(c, o) ==
    CASE c.pc = "loop" -> afetch_loop(c)
      [] c.pc = "warmup" -> afetch_warmup(c, o)
      [] c.pc = "target" -> afetch_target(c, o)
      [] c.pc = "exit" -> afetch_exit(c)

\* One step of the program on an AsyncNSESession: the operation in progress
\* goes on, or the next one starts.
StepHandle(h, k, o) ==
    CASE h.pc = "target" -> AsyncNSESession_fetch_target(h, o)
      [] h.pc = "rewarm" -> AsyncNSESession_fetch_retry(h, o)
      [] h.pc = "idle" /\ Program[k + 1] = "enter" -> AsyncNSESession_aenter(h, o)
      [] h.pc = "idle" /\ Program[k + 1] = "fetch" -> AsyncNSESession_fetch(h, ParRetries, o)
      [] h.pc = "idle" /\ Program[k + 1] = "exit" -> AsyncNSESession_aexit(h, FALSE)

\* The call of a task run alone to its end: [rec, log].
RECURSIVE RunCall(_, _, _, _)
RunCall(c, script, pos, log) ==
    IF c.pc = "done" THEN [rec |-> c, log |-> log]
    ELSE LET c1 == StepCall(c, Outcome(script, pos))
         IN RunCall(c1, script, pos + Len(c1.outs) - Len(c.outs),
                    log \o SubSeq(c1.trace, Len(c.trace) + 1, Len(c1.trace)))

\* The program of a task run alone on its handle to its end: [rec, log].
RECURSIVE RunHandle(_, _, _, _, _)
RunHandle(h, k, script, pos, log) ==
    IF h.pc = "idle" /\ k = Len(Program) THEN [rec |-> h, log |-> log]
    ELSE LET h1 == StepHandle(h, k, Outcome(script, pos))
         IN RunHandle(h1, k + (h1.nops - h.nops), script,
                      pos + Len(Added(h, h1, h.outs, h1.outs)),
                      log \o Added(h, h1, h.trace, h1.trace))

NewPar(kind, r, scripts) ==
    [kind |-> kind, rec |-> [x \in Tasks |-> r], script |-> scripts,
     pos |-> [x \in Tasks |-> 0], opi |-> [x \in Tasks |-> 0],
     created |-> 0, open |-> {}, owner |-> {}, users |-> {},
     log |-> [x \in Tasks |-> <<>>]]

InitPar ==
    \E scripts \in [Tasks -> Scripts] :
        \/ par = NewPar("calls", NewCall(ParRetries), scripts)
        \/ par = NewPar("handles", NewHandle, scripts)

\* The position of task x and the outcome it meets next.
Mine(x) == View(par.rec[x], par)
Meets(x) == Outcome(par.script[x], par.pos[x])

ParLoop ==
    \E x \in Tasks :
        /\ par.kind = "calls" /\ Mine(x).pc = "loop"
        /\ LET c1 == afetch_loop(Mine(x))
           IN par' = Advance(par, x, c1, c1.session)
        /\ UNCHANGED <<call, hs, hd, api>>

ParWarmup ==
    \E x \in Tasks :
        /\ par.kind = "calls" /\ Mine(x).pc = "warmup"
        /\ par' = Advance(par, x, afetch_warmup(Mine(x), Meets(x)), Mine(x).session)
        /\ UNCHANGED <<call, hs, hd, api>>

ParTarget ==
    \E x \in Tasks :
        /\ par.kind = "calls" /\ Mine(x).pc = "target"
        /\ par' = Advance(par, x, afetch_target(Mine(x), Meets(x)), Mine(x).session)
        /\ UNCHANGED <<call, hs, hd, api>>

ParExit ==
    \E x \in Tasks :
        /\ par.kind = "calls" /\ Mine(x).pc = "exit"
        /\ par' = Advance(par, x, afetch_exit(Mine(x)), Mine(x).session)
        /\ UNCHANGED <<call, hs, hd, api>>

\* The next operation of the program of task x starts.
ParStart ==
    \E x \in Tasks :
        /\ par.kind = "handles" /\ Mine(x).pc = "idle"
        /\ par.opi[x] < Len(Program)
        /\ LET h1 == StepHandle(Mine(x), par.opi[x], Meets(x))
           IN par' = Advance(par, x, h1,
                             IF h1.op = "enter" THEN h1.session ELSE Mine(x).session)
        /\ UNCHANGED <<call, hs, hd, api>>

ParFetchTarget ==
    \E x \in Tasks :
        /\ par.kind = "handles" /\ Mine(x).pc = "target"
        /\ par' = Advance(par, x, AsyncNSESession_fetch_target(Mine(x), Meets(x)),
                          Mine(x).session)
        /\ UNCHANGED <<call, hs, hd, api>>

ParFetchRetry ==
    \E x \in Tasks :
        /\ par.kind = "handles" /\ Mine(x).pc = "rewarm"
        /\ par' = Advance(par, x, AsyncNSESession_fetch_retry(Mine(x), Meets(x)),
                          Mine(x).session)
        /\ UNCHANGED <<call, hs, hd, api>>

NextPar ==
    ParLoop \/ ParWarmup \/ ParTarget \/ ParExit \/ ParStart \/ ParFetchTarget
        \/ ParFetchRetry

(***************************************************************************)
(* Properties.                                                             *)
(***************************************************************************)
Last(q) == q[Len(q)]

Count(q, e) == Cardinality({k \in 1..Len(q) : q[k] = e})

\* q ends with the sequence t.
EndsWith(q, t) ==
    /\ Len(q) >= Len(t)
    /\ SubSeq(q, Len(q) - Len(t) + 1, Len(q)) = t

\* The last request of a trace ("none" if it has none).
LastRequest(q) ==
    LET at == {k \in 1..Len(q) : q[k] \in {"get_home", "get_target"}}
    IN IF at = {} THEN "none" ELSE q[CHOOSE k \in at : \A j \in at : j <= k]

\* A request that failed at the transport: non-2xx, connection error, timeout.
Failed == {"status", "neterr"}

AllFailed(q) == \A k \in 1..Len(q) : q[k] \in Failed

\* C1: against a transport whose requests always fail, fetch and afetch make
\* exactly retries + 1 attempts, each with a client of its own (retries + 1
\* clients constructed, retries + 1 warmups), and return the empty mapping.
C1_AlwaysFailingExhausts ==
    \A d \in Disc :
        LET c == call[d]
        IN (c.pc = "done" /\ AllFailed(c.outs)) =>
             /\ c.result = "empty"
             /\ c.attempt = c.retries + 1
             /\ c.created = c.retries + 1
             /\ Count(c.trace, "create") = c.retries + 1
             /\ Count(c.trace, "get_home") = c.retries + 1

C1_Witness ==
    \A d \in Disc :
        /\ call[d].pc = "done"
        /\ call[d].retries = 2
        /\ call[d].outs = <<"neterr", "status", "neterr", "status">>
        /\ call[d].result = "empty"

\* C2: when the warmup and the target GET of an attempt both succeed with a JSON
\* body, the call is returning that JSON: exactly attempt + 1 clients have been
\* constructed (and, once returned, closed), nothing follows the target request
\* but the close of the client, and no further attempt starts.
C2_FirstSuccessReturns ==
    \A d \in Disc :
        LET c == call[d]
        IN (c.pc # "off" /\ c.warm /\ c.outs # <<>> /\ Last(c.outs) \in {"json", "empty"}) =>
             /\ c.pc \in {"exit", "done"}
             /\ c.after = "return"
             /\ c.result = (IF Last(c.outs) = "json" THEN "json" ELSE "emptyjson")
             /\ c.attempt <= c.retries
             /\ c.created = c.attempt + 1
             /\ c.pc = "exit" => /\ EndsWith(c.trace, <<"get_target">>)
                                 /\ Count(c.trace, "close") = c.attempt
             /\ c.pc = "done" => /\ EndsWith(c.trace, <<"get_target", "close">>)
                                 /\ Count(c.trace, "close") = c.attempt + 1
                                 /\ c.open = {}

\* warmup fails on attempts 0 and 1 and succeeds on attempt 2, retries = 2
C2_Witness ==
    \A d \in Disc :
        /\ call[d].pc = "done"
        /\ call[d].retries = 2
        /\ call[d].outs = <<"neterr", "status", "nonjson", "json">>
        /\ call[d].result = "json"
        /\ Count(call[d].trace, "create") = 3
        /\ Count(call[d].trace, "close") = 3

\* C3: in the one-shot fetch at most one client is open at any point, a client
\* is constructed only when the previous one is closed, the client of an
\* attempt is closed when the attempt ends, and none is open after the return.
C3_ClientClosedEachAttempt ==
    \A d \in Disc :
        LET c == call[d]
        IN c.pc # "off" =>
             /\ Cardinality(c.open) <= 1
             /\ c.pc \in {"loop", "done"} =>
                    /\ c.open = {}
                    /\ Count(c.trace, "close") = c.created
             /\ c.pc \in {"warmup", "target", "exit"} =>
                    /\ c.open = {c.created}
                    /\ c.session = c.created
                    /\ Count(c.trace, "close") = c.created - 1

\* an attempt left by a failed warmup, one by a non-JSON body, one by a success
C3_Witness ==
    \A d \in Disc :
        /\ call[d].pc = "done"
        /\ call[d].outs = <<"status", "nonjson", "nonjson", "nonjson", "json">>
        /\ call[d].created = 3
        /\ Count(call[d].trace, "close") = 3
        /\ call[d].open = {}

\* C4: the one-shot fetch never raises: it returns parsed JSON or the empty
\* mapping; and an attempt whose target request ends in a non-JSON 2xx body is
\* left exactly as one that ends in a transport error: no result, the backoff
\* sleep if and only if attempts remain, then the next attempt.
C4_NeverRaises ==
    \A d \in Disc :
        LET c == call[d]
        IN /\ c.result # "raised"
           /\ c.after # "raise"
           /\ c.pc = "done" => c.result \in {"json", "emptyjson", "empty"}
           /\ (/\ c.pc = "exit"
               /\ LastRequest(c.trace) = "get_target"
               /\ Last(c.outs) \in {"nonjson", "status", "neterr"}) =>
                    /\ c.result = "none"
                    /\ c.after = "next"
                    /\ IF c.attempt < c.retries
                       THEN EndsWith(c.trace, <<"get_target", "sleep_0.3_0.5">>)
                       ELSE EndsWith(c.trace, <<"get_target">>)

\* every target request answers 2xx with a body that is not JSON
C4_Witness ==
    \A d \in Disc :
        /\ call[d].pc = "done"
        /\ call[d].retries = 1
        /\ call[d].outs = <<"nonjson", "nonjson", "nonjson", "nonjson">>
        /\ call[d].trace = <<"create", "get_home", "sleep_0.1_0.2", "get_target",
                             "sleep_0.3_0.5", "close",
                             "create", "get_home", "sleep_0.1_0.2", "get_target",
                             "close">>
        /\ call[d].result = "empty"

\* C5: an exit closes the client that the entry of the scope it leaves
\* constructed, and passes the error on when it was triggered by one; every
\* client still open belongs to a scope that has not been exited.
C5_ExitClosesScopeClient ==
    \A d \in Disc :
        LET h == hs[d]
        IN h.pc # "off" =>
             /\ h.open \subseteq {h.scopes[k] : k \in 1..Len(h.scopes)}
             /\ h.op = "exit" => /\ h.left \notin h.open
                                 /\ h.propagated = h.error

\* C6: entering the scope constructs one client and makes exactly one warmup
\* request; the entry completes with the handle holding the open client, and
\* the warmed-up flag is true exactly when that request returned 2xx.
C6_EnterWarmsOnce ==
    \A d \in Disc :
        LET h == hs[d]
        IN h.op = "enter" =>
             /\ h.pc = "idle"
             /\ h.result # "raised"
             /\ Count(h.trace, "create") = 1
             /\ Count(h.trace, "get_home") = 1
             /\ Count(h.trace, "get_target") = 0
             /\ Len(h.outs) = 1
             /\ h.session = h.created
             /\ h.session \in h.open
             /\ Last(h.scopes) = h.session
             /\ h._warmed_up <=> (h.outs[1] \notin Failed)

C6_Witness ==
    \A d \in Disc :
        /\ hs[d].op = "enter"
        /\ hs[d].outs = <<"neterr">>
        /\ ~hs[d]._warmed_up
        /\ hs[d].session \in hs[d].open
        /\ hs[d].pc = "idle"

\* C7: a fetch on a handle with retries = N issues at most N + 1 target
\* requests and constructs or closes no client; a non-empty JSON answer ends the
\* call at once with that answer; an empty result with attempts remaining is
\* followed by one sleep and one fast warmup before the next target request;
\* after the last attempt the call returns the empty mapping with no sleep and
\* no warmup after the target request.
C7_SessionFetchBounded ==
    \A d \in Disc :
        LET h == hs[d]
            pre == IF h.trace # <<>> /\ h.trace[1] = "get_home" THEN 1 ELSE 0
        IN (h.op = "fetch" /\ h.result # "raised") =>
             /\ Count(h.trace, "get_target") <= h.retries + 1
             /\ Count(h.trace, "create") = 0 /\ Count(h.trace, "close") = 0
             /\ h.attempt <= h.retries
             /\ Count(h.trace, "sleep_0.2_0.4") = h.attempt
             /\ Count(h.trace, "get_home") = h.attempt + pre
             /\ Count(h.trace, "get_target") = h.attempt + (IF h.pc = "target" THEN 0 ELSE 1)
             /\ \A k \in 1..(Len(h.outs) - 1) : h.outs[k] # "json"
             /\ (h.outs # <<>> /\ Last(h.outs) = "json") =>
                    h.pc = "idle" /\ h.result = "json"
             /\ h.pc = "idle" => /\ h.result \in {"json", "empty"}
                                 /\ EndsWith(h.trace, <<"get_target">>)
                                 /\ h.result = "empty" =>
                                        /\ h.attempt = h.retries
                                        /\ Last(h.outs) # "json"
             /\ h.pc = "rewarm" => /\ EndsWith(h.trace, <<"get_target">>)
                                   /\ h.attempt < h.retries
             /\ (h.pc = "target" /\ h.attempt > 0) =>
                    \/ EndsWith(h.trace, <<"get_target", "sleep_0.2_0.4", "get_home">>)
                    \/ EndsWith(h.trace, <<"get_target", "sleep_0.2_0.4", "get_home",
                                           "sleep_0.1_0.2">>)

\* retries = 1 on a warmed-up handle: empty, sleep, warmup, empty, return {}
C7_Witness ==
    \A d \in Disc :
        /\ hs[d].op = "fetch"
        /\ hs[d].pc = "idle"
        /\ hs[d].retries = 1
        /\ hs[d].result = "empty"
        /\ hs[d].trace = <<"get_target", "sleep_0.2_0.4", "get_home", "sleep_0.1_0.2",
                           "get_target">>

\* C8: the blocking and the cooperative code are the same state machine: after
\* every step on the same transport outcomes, fetch and afetch, and NSESession
\* and AsyncNSESession, are in the same state (position, attempt, clients
\* constructed and open, warmed-up flag, result) with the same sequence of
\* client creations, requests, sleeps and closes; and the two warmup functions
\* agree on every client state, outcome and mode.
C8_SameStateMachine ==
    /\ call["sync"] = call["async"]
    /\ hs["sync"] = hs["async"]
    /\ \A s \in {"open", "closed", "none"}, o \in Outcomes, fast \in BOOLEAN :
           _warmup_session(s, o, fast) = _awarmup_session(s, o, fast)

C8_Witness ==
    /\ call["sync"].pc = "done" /\ call["async"].pc = "done"
    /\ call["async"].retries = 2
    /\ call["async"].trace = <<"create", "get_home", "sleep_0.3_0.5", "close",
                               "create", "get_home", "sleep_0.1_0.2", "get_target",
                               "sleep_0.3_0.5", "close",
                               "create", "get_home", "get_target", "close">>
    /\ call["async"].result = "emptyjson"

\* The batches of a call that got past the validation and out of the loop.
Batched(h) == h.pc \in {"price", "yield", "merge"}

\* C9: for start <= end the batches are contiguous and non-overlapping, each
\* has start <= end and a span of at most 364 days, the first starts at start
\* and the last ends at end.
C9_BatchesCoverRange ==
    LET b == hd.date_batches
    IN Batched(hd) =>
         /\ b # <<>>
         /\ b[1][1] = hd.start_dt
         /\ b[Len(b)][2] = hd.end_dt
         /\ \A k \in 1..Len(b) : b[k][1] <= b[k][2] /\ b[k][2] - b[k][1] <= MAX_DAYS_PER_REQUEST
         /\ \A k \in 1..(Len(b) - 1) : b[k + 1][1] = b[k][2] + 1

\* C10: when start = end exactly one batch (start, end) is emitted, and a price
\* request and a valuation request are issued for that day.
C10_SingleDayOneBatch ==
    (Batched(hd) /\ hd.start_dt = hd.end_dt) =>
        /\ hd.date_batches = << <<hd.start_dt, hd.end_dt>> >>
        /\ hd.pc = "merge" =>
               hd.requests = << <<"price", hd.start_dt, hd.end_dt>>,
                                <<"yield", hd.start_dt, hd.end_dt>> >>

\* No batch was computed and no fetch was made, and the call returns {}.
NothingDone(h) ==
    /\ h.date_batches = <<>>
    /\ h.requests = <<>>
    /\ h.pc = "done" => h.result = "empty"

\* The start is after the end: both are valid, or the end is today's.
Inverted(h) ==
    /\ h.start_date[1] = "ymd"
    /\ \/ h.end_date[1] = "ymd" /\ h.start_date[2] > h.end_date[2]
       \/ h.end_date[1] \in {"empty", "none"} /\ h.start_date[2] > h.now[1]

\* C11 as stated: a call whose start date is after its end date, or whose
\* start or end date string is not a valid YYYY-MM-DD date, returns {} having
\* computed no batch and made no fetch.
C11_InvalidRangeNoRequest_AsStated ==
    (hd.pc \notin {"off", "parse", "validate"} /\
     (Inverted(hd) \/ hd.start_date[1] \in {"bad", "empty"}
                   \/ hd.end_date[1] \in {"bad", "empty"})) => NothingDone(hd)

\* C11, amended: a call whose start date is after its end date, or whose start
\* date string or non-empty end date string is not a valid YYYY-MM-DD date,
\* returns {} having computed no batch and made no fetch. (The empty string as
\* the end date is taken as no end date: the end is now.)
C11_InvalidRangeNoRequest ==
    (hd.pc \notin {"off", "parse", "validate"} /\
     (Inverted(hd) \/ hd.start_date[1] \in {"bad", "empty"}
                   \/ hd.end_date[1] = "bad")) => NothingDone(hd) /\ hd.pc = "done"

C11_Witness ==
    /\ hd.pc = "done" /\ hd.result = "empty"
    /\ hd.start_date[1] = "ymd" /\ hd.end_date[1] = "bad"
    /\ hd.start_date[2] <= hd.now[1]

C13_ValuationSubordinate ==
    hd.pc = "done" =>
        /\ (hd.price_data = <<>> /\ hd.date_batches # <<>>) => hd.result = "empty"
        /\ \A k \in 1..Len(hd.all_data) :
              LET rec == hd.all_data[k]
              IN /\ rec.date \in Keys(hd.price_data)
                 /\ {"PE", "PB", "divYield"} \subseteq DOMAIN rec
                 /\ rec.date \notin Keys(hd.yield_data) =>
                        rec.PE = "None" /\ rec.PB = "None" /\ rec.divYield = "None"
                 /\ rec.date \in Keys(hd.yield_data) =>
                        rec.PE = Get(hd.yield_data, rec.date, NoYields).PE
        /\ hd.result = "series" =>
              \A d \in Keys(hd.price_data) \ Keys(hd.yield_data) :
                  \E k \in 1..Len(hd.all_data) : hd.all_data[k].date = d

\* A series with a date that has no valuation, a date that has one, and a
\* valuation whose date has no price.
C13_Witness ==
    /\ hd.pc = "done" /\ hd.result = "series"
    /\ Keys(hd.yield_data) \ Keys(hd.price_data) # {}
    /\ \E k \in 1..Len(hd.all_data) : hd.all_data[k].PE = "None"
    /\ \E k \in 1..Len(hd.all_data) : hd.all_data[k].PE # "None"

\* C14: over a range split into several batches, when a fetch of a batch
\* returned {} after its retries, the call returns {}: never a non-empty
\* series that lacks the dates of the batch whose price request failed.
C14_FailedBatchEmptiesResult ==
    (hd.pc = "done" /\ Len(hd.date_batches) > 1 /\
     \E i \in 1..Len(hd.date_batches) : <<"price", i>> \in hd.failed)
        => hd.result = "empty"

\* C16: on success the call returns the mapping of its docstring: the key
\* `data` with the list of points, each point with the keys indexSymbol, date,
\* open, high, low, close, PE, PB and divYield.
C16_DocstringShape ==
    (hd.pc = "done" /\ hd.result = "series") =>
        /\ ReturnedKeys(hd) = {"data"}
        /\ \A k \in 1..Len(hd.all_data) :
               {"indexSymbol", "date", "open", "high", "low", "close",
                "PE", "PB", "divYield"} \subseteq DOMAIN hd.all_data[k]

\* The names of the sectoral category.
IsSectoral(subType) ==
    subType \in {"Sectoral Indices", "Sectoral Market Indices", "SECTORAL INDICES"}

\* C15: in the output of get_index_list, NIFTY BANK and NIFTY FIN SERVICE are
\* in the sectoral category whatever the category they are listed under.
C15_OverrideForcesSectoral ==
    (api.fn = "get_index_list" /\ api.pc = "done") =>
        \A k \in 1..Len(api.ret.indexList) :
            api.ret.indexList[k].indexName \in SECTORAL_OVERRIDE =>
                IsSectoral(api.ret.indexList[k].subType)

IsRequest(e) == e \in {"get_home", "get_option_chain", "get_target"}

\* The requests of a sequence of events, in order.
Requests(events) == SelectSeq(events, IsRequest)

\* C18: the non-fast warmup sends a GET to the home page and then a GET to the
\* option-chain page, the fast one the GET to the home page only; it returns
\* true only if every request returned 2xx, and at the first transport error
\* it stops and returns false without repeating a request.
C18_WarmupSequence ==
    (api.fn = "_warmup_session" /\ api.pc = "done") =>
        \A d \in Disc :
            LET w == api.ret[d]
                ok == api.arg.outcome \notin Failed
            IN /\ api.arg.fast => Requests(w.events) = <<"get_home">>
               /\ (~api.arg.fast /\ ok) =>
                      Requests(w.events) = <<"get_home", "get_option_chain">>
               /\ (~api.arg.fast /\ ~ok) => Requests(w.events) = <<"get_home">>
               /\ w.ret = ok
               /\ w.raised = "none"

\* C19 as stated: in the one-shot fetch and in the fetch of a handle, a target
\* request is sent on a client only if the most recent warmup attempt on that
\* client succeeded, in the last attempt of the retry budget too.
C19_TargetOnlyWhenWarm_AsStated ==
    \A d \in Disc :
        /\ (call[d].pc # "off" /\ LastRequest(call[d].trace) = "get_target")
               => call[d].warm
        /\ (hs[d].pc # "off" /\ LastRequest(hs[d].trace) = "get_target")
               => hs[d]._warmed_up

\* The number of the attempt (from 0) that event k of a one-shot trace is in.
AttemptOf(trace, k) == Count(SubSeq(trace, 1, k), "create") - 1

\* C19, amended: a target request follows a warmup attempt on the same client.
\* In the one-shot fetch it is sent after a successful warmup, and after a
\* failed one only in the last attempt of the retry budget; an attempt whose
\* warmup failed while attempts remain sends no target request. In the fetch
\* of a handle it is sent when the flag is true or a warmup has just been
\* attempted, whatever the result of that warmup.
C19_TargetOnlyWhenWarm ==
    \A d \in Disc :
        /\ call[d].pc = "target" =>
              call[d].warm \/ call[d].attempt = call[d].retries
        /\ call[d].pc # "off" =>
              \A k \in 1..Len(call[d].trace) :
                  call[d].trace[k] = "get_target" =>
                      /\ k > 1
                      /\ \/ call[d].trace[k - 1] = "sleep_0.1_0.2"
                         \/ /\ call[d].trace[k - 1] = "get_home"
                            /\ AttemptOf(call[d].trace, k) = call[d].retries
        /\ (hs[d].pc = "target") =>
              \/ hs[d]._warmed_up
              \/ hs[d].trace # <<>> /\ Last(hs[d].trace) = "get_home"

\* With one retry: the first warmup fails and the attempt ends without a
\* target request; the second warmup fails too and the target request is sent.
C19_Witness ==
    /\ call["sync"].retries = 1
    /\ call["sync"].trace = <<"create", "get_home", "sleep_0.3_0.5", "close",
                              "create", "get_home", "get_target", "close">>
    /\ call["sync"].pc = "done"

\* C20: on a handle whose entry warmup succeeded, while every fetch call gets
\* a non-empty result from its first target request no further warmup request
\* is sent: the batch has used exactly one; and a fetch call sends a warmup
\* request before its first target request only when the flag was false.
C20_WarmupAmortized ==
    \A d \in Disc :
        LET h == hs[d]
        IN /\ (h.tally.entry_ok /\ h.tally.firsttry) => h.tally.warmups = 1
           /\ (h.op = "fetch" /\ h.trace # <<>>) =>
                  (h.trace[1] = "get_home" <=> ~h.tally.flag0)

\* Three fetch calls in one scope, one warmup request in all.
C20_Witness ==
    /\ hs["sync"].tally.entry_ok /\ hs["sync"].tally.firsttry
    /\ hs["sync"].tally.fetches = 3
    /\ hs["sync"].tally.warmups = 1
    /\ hs["sync"].result = "json"

\* Task x has run its call, or its program, to the end.
Finished(x) ==
    IF par.kind = "calls" THEN par.rec[x].pc = "done"
    ELSE par.rec[x].pc = "idle" /\ par.opi[x] = Len(Program)

\* Task x run alone against its transport outcomes.
Alone(x) ==
    IF par.kind = "calls" THEN RunCall(NewCall(ParRetries), par.script[x], 0, <<>>)
    ELSE RunHandle(NewHandle, 0, par.script[x], 0, <<>>)

IsPrefix(q, t) == Len(q) <= Len(t) /\ SubSeq(t, 1, Len(q)) = q

\* C17: parallel one-shot fetches, and parallel fetches on distinct handles,
\* share no client: in every interleaving each client is bound, used and
\* closed only by the task that constructed it, and each task sends the
\* requests and gets the result (and leaves the flag of its handle) that it
\* would running alone against the same transport outcomes.
C17_ParallelCallsIndependent ==
    par.kind # "off" =>
        /\ par.users \subseteq par.owner
        /\ \A u, v \in par.owner : u[1] = v[1] => u = v
        /\ \A x \in Tasks :
              /\ IsPrefix(par.log[x], Alone(x).log)
              /\ Finished(x) =>
                    /\ par.log[x] = Alone(x).log
                    /\ par.rec[x].result = Alone(x).rec.result
                    /\ par.kind = "handles" =>
                          par.rec[x]._warmed_up = Alone(x).rec._warmed_up

\* Two one-shot fetches that met different outcomes and ran interleaved: the
\* clients of the process were constructed by A, by B and by A again.
C17_Witness ==
    /\ par.kind = "calls"
    /\ \A x \in Tasks : Finished(x)
    /\ par.script["A"] # par.script["B"]
    /\ {<<1, "A">>, <<2, "B">>, <<3, "A">>} \subseteq par.owner
    /\ par.rec["A"].result # par.rec["B"].result

\* The strings a helper is written to reparse: a DD-Mon-YYYY date, or that
\* date, a space and a time of day.
IsDateString(s) == Len(s) = 1 /\ s[1].k = "date"
IsTimestamp(s) ==
    Len(s) = 3 /\ s[1].k = "date" /\ s[2].k = "sp" /\ s[3].k \in {"hms", "hm"}
Reparses(fn, s) ==
    CASE fn = "_parse_date_to_ymd" -> IsDateString(s)
      [] fn = "_parse_timestamp_to_date" -> IsTimestamp(s)
      [] OTHER -> IsDateString(s) \/ IsTimestamp(s)
NoDate(s) == \A i \in 1..Len(s) : s[i].k # "date"

\* C21: every date helper returns on every string, never raising: the
\* YYYY-MM-DD form of the date when the string is one the helper reparses,
\* and "" when the string holds no date (empty, blank only, or other text).
C21_DateHelpersNeverRaise ==
    (api.pc = "done" /\ api.fn \in DateHelpers) =>
        /\ api.ret.raised = "none"
        /\ Reparses(api.fn, api.arg) => api.ret.value = ISO(api.arg[1].d)
        /\ NoDate(api.arg) => api.ret.value = Undated

\* C22: on a session handle of either kind, in every state, the warmed-up
\* flag is true exactly when the last warmup completed on the handle
\* succeeded (false when none has completed); target requests leave it
\* alone; and during and after a fetch the handle's client is the one it had
\* when the fetch was called.
C22_FlagIsLastWarmup ==
    \A d \in Disc :
        LET h == hs[d]
        IN /\ h._warmed_up = (h.tally.last_warm = "ok")
           /\ h.op = "fetch" => h.session = h.tally.session0

\* A fetch inside a scope whose entry warmup succeeded: the target request
\* came back empty, the warmup of the retry failed, and the fetch has ended
\* with the flag false on the same client.
C22_Witness ==
    \A d \in Disc :
        LET h == hs[d]
        IN /\ h.op = "fetch" /\ h.pc = "idle" /\ h.attempt >= 1
           /\ h.tally.entry_ok /\ h.tally.flag0
           /\ ~h._warmed_up /\ h.tally.last_warm = "failed"
           /\ h.result = "json"
           /\ h.session # 0 /\ h.session = h.tally.session0

\* Exactly one of the entry points runs in a behaviour; the others stay off.
CallsOff == [d \in Disc |-> [NewCall(0) EXCEPT !.pc = "off"]]
HandlesOff == [d \in Disc |-> [NewHandle EXCEPT !.pc = "off"]]
HistOff == [NewHist(1, 1) EXCEPT !.pc = "off"]
ApiOff == [fn |-> "none", pc |-> "off", arg |-> "none", ret |-> "none"]
ParOff == NewPar("off", NewCall(0), [x \in Tasks |-> <<>>])

Init ==
    \/ InitCall /\ hs = HandlesOff /\ hd = HistOff /\ api = ApiOff /\ par = ParOff
    \/ call = CallsOff /\ InitHandle /\ hd = HistOff /\ api = ApiOff /\ par = ParOff
    \/ call = CallsOff /\ hs = HandlesOff /\ InitHist /\ api = ApiOff /\ par = ParOff
    \/ call = CallsOff /\ hs = HandlesOff /\ hd = HistOff /\ (InitApi \/ InitWarmup \/ InitDate)
          /\ par = ParOff
    \/ call = CallsOff /\ hs = HandlesOff /\ hd = HistOff /\ api = ApiOff /\ InitPar

Next == NextCall \/ NextHandle \/ NextHist \/ NextApi \/ NextPar

Spec == Init /\ [][Next]_vars

====
